---- MODULE Spec2Model ----
(***************************************************************************)
(* Model of action-s710-weather.py (Snips Weather + DarkSky): the time-    *)
(* expression resolver (get_timerange and its helpers), the record         *)
(* selector (select_weather) and the response handlers behind on_intent.   *)
(*                                                                         *)
(* Conventions                                                             *)
(*  - A Python str is a sequence of characters, each a one-character       *)
(*    string, so that `in`, ==, endswith, + and capitalize are computed on *)
(*    the characters; the umlauts are the single elements "ae", "oe",      *)
(*    "ue" and "Ue". Names that are only compared as a whole (scale,       *)
(*    intent name, precipType) are plain strings.                          *)
(*  - Python None is the empty tuple None; a value that may be None is     *)
(*    wrapped as the one-element tuple Some(v).                            *)
(*  - A timestamp is a whole number of seconds. The local time zone is     *)
(*    taken to have a fixed UTC offset (no daylight-saving switch inside   *)
(*    the modelled days) and second 0 is a local Monday 00:00:00, so the   *)
(*    local calendar day of t is t \div 86400 and its weekday is that day  *)
(*    modulo 7 (0 = Monday, as datetime.weekday()).                        *)
(*  - A Python dict is a function whose DOMAIN is the set of keys present. *)
(*  - Temperatures are whole tenths of a degree and probabilities whole    *)
(*    percents.                                                            *)
(***************************************************************************)
EXTENDS Integers, Sequences, FiniteSets, TLC

VARIABLES
  pc,           \* "start" before the modelled call, "done" after it
  time_string,  \* the time slot value: None or Some(str)
  now,          \* the reading of time.time()
  timerange,    \* what get_timerange returned
  payload,      \* the decoded forecast payload (response_content)
  selection,    \* what select_weather returned
  intent_name,  \* the intent query_weather is called for
  city,         \* the location slot value: None or Some(name)
  api_key,      \* App.api_key: None or Some(key)
  home_location, \* App.home_location: None or Some((latitude, longitude))
  response,     \* what process_response did: Return(value) or Raise
  published,    \* the responses handed to hermes.publish_end_session
  stage,        \* where query_weather, or on_intent, ended
  slots         \* the slots of the intent message on_intent received

vars == <<pc, time_string, now, timerange, payload, selection, intent_name, city, api_key,
          home_location, response, published, stage, slots>>

None == <<>>
Some(v) == <<v>>

\* ------------------------------------------------------------------ bounds
\* Phrases are built from at most MaxWords vocabulary words.
MaxWords == 2
\* "now" ranges over the local days 0..MaxDay (every weekday occurs).
MaxDay == 6
\* The hourly and the daily series of a payload hold at most MaxSeries records.
MaxSeries == 2

\* ------------------------------------------------------------ str literals
s_frueh == <<"f", "r", "ue", "h">>
s_vormittag == <<"v", "o", "r", "m", "i", "t", "t", "a", "g">>
s_mittag == <<"m", "i", "t", "t", "a", "g">>
s_nachmittag == <<"n", "a", "c", "h", "m", "i", "t", "t", "a", "g">>
s_abend == <<"a", "b", "e", "n", "d">>
s_nacht == <<"n", "a", "c", "h", "t">>
s_wochenende == <<"w", "o", "c", "h", "e", "n", "e", "n", "d", "e">>
s_woche == <<"w", "o", "c", "h", "e">>
s_ende == <<"e", "n", "d", "e">>
s_naechste == <<"n", "ae", "c", "h", "s", "t", "e">>
s_heute == <<"h", "e", "u", "t", "e">>
s_morgen == <<"m", "o", "r", "g", "e", "n">>
s_bermorgen == <<"b", "e", "r", "m", "o", "r", "g", "e", "n">>
s_uebermorgen == <<"ue", "b", "e", "r", "m", "o", "r", "g", "e", "n">>
s_jetzt == <<"j", "e", "t", "z", "t">>
s_Jetzt == <<"J", "e", "t", "z", "t">>
s_Heute == <<"H", "e", "u", "t", "e">>
s_Morgen == <<"M", "o", "r", "g", "e", "n">>
s_Uebermorgen == <<"Ue", "b", "e", "r", "m", "o", "r", "g", "e", "n">>
s_AmWochenende == <<"A", "m", " ", "W", "o", "c", "h", "e", "n", "e", "n", "d", "e">>
s_NaechsteWoche == <<"N", "ae", "c", "h", "s", "t", "e", " ", "W", "o", "c", "h", "e">>
s_DieseWoche == <<"D", "i", "e", "s", "e", " ", "W", "o", "c", "h", "e">>
s_am_ == <<"a", "m", " ">>
s__frueh == <<" ", "f", "r", "ue", "h">>
s__vormittag == <<" ", "v", "o", "r", "m", "i", "t", "t", "a", "g">>
s__nachmittag == <<" ", "n", "a", "c", "h", "m", "i", "t", "t", "a", "g">>
s__mittag == <<" ", "m", "i", "t", "t", "a", "g">>
s__abend == <<" ", "a", "b", "e", "n", "d">>
s__nacht == <<" ", "n", "a", "c", "h", "t">>

\* ------------------------------------------------------------- str methods
\* sub in s
In(sub, s) ==
  \E i \in 0..(Len(s) - Len(sub)) : SubSeq(s, i + 1, i + Len(sub)) = sub

\* s.endswith(suffix)
endswith(s, suffix) ==
  /\ Len(suffix) <= Len(s)
  /\ SubSeq(s, Len(s) - Len(suffix) + 1, Len(s)) = suffix

\* c.upper() for the letters that start a weekday name
upper(c) ==
  CASE c = "m" -> "M"
    [] c = "d" -> "D"
    [] c = "f" -> "F"
    [] c = "s" -> "S"
    [] OTHER -> c

\* s.capitalize(): first character upper-cased (the rest of a weekday name is
\* lower case already)
capitalize(s) == IF s = <<>> THEN s ELSE <<upper(s[1])>> \o Tail(s)

\* s.lower() for the letters the time slot values use
lower(s) ==
  [i \in 1..Len(s) |->
     CASE s[i] = "H" -> "h"
       [] s[i] = "W" -> "w"
       [] s[i] = "J" -> "j"
       [] s[i] = "A" -> "a"
       [] OTHER -> s[i]]

\* list.index(x), 0-based
index(list, x) == (CHOOSE i \in 1..Len(list) : list[i] = x /\ \A j \in 1..(i - 1) : list[j] # x) - 1

\* ------------------------------------------------------- App.__init__ lists
weekdays ==
  <<<<"m", "o", "n", "t", "a", "g">>,
    <<"d", "i", "e", "n", "s", "t", "a", "g">>,
    <<"m", "i", "t", "t", "w", "o", "c", "h">>,
    <<"d", "o", "n", "n", "e", "r", "s", "t", "a", "g">>,
    <<"f", "r", "e", "i", "t", "a", "g">>,
    <<"s", "a", "m", "s", "t", "a", "g">>,
    <<"s", "o", "n", "n", "t", "a", "g">>>>
day_range_symbols == <<s_frueh, s_vormittag, s_mittag, s_nachmittag, s_abend, s_nacht>>

\* ------------------------------------------------------------ datetime type
SecondsPerDay == 24 * 60 * 60

\* datetime.fromtimestamp(epoch): the local broken-down time
fromtimestamp(epoch) ==
  [day    |-> epoch \div SecondsPerDay,
   hour   |-> (epoch % SecondsPerDay) \div 3600,
   minute |-> (epoch % 3600) \div 60,
   second |-> epoch % 60]

\* dt.replace(minute = mi, hour = h, second = s, microsecond = 0)
replace(dt, h, mi, s) == [dt EXCEPT !.hour = h, !.minute = mi, !.second = s]

\* dt + timedelta(days = n)
plus_days(dt, n) == [dt EXCEPT !.day = @ + n]

\* dt.weekday(): 0 = Monday .. 6 = Sunday
weekday(dt) == dt.day % 7

\* dt.timestamp()
timestamp(dt) == dt.day * SecondsPerDay + dt.hour * 3600 + dt.minute * 60 + dt.second

\* the 4-tuple (scale, from, to, prefix) get_timerange returns
TimeRange(scale, tme_from, tme_to, prefix) ==
  [scale |-> scale, from |-> tme_from, to |-> tme_to, prefix |-> prefix]

\* ------------------------------------------------------- timerange helpers
get_day_range(epoch, prefix) ==
  LET dt1 == replace(fromtimestamp(epoch), 0, 0, 0)
      dt2 == replace(fromtimestamp(epoch), 23, 59, 59)
  IN TimeRange("daily", Some(timestamp(dt1)), Some(timestamp(dt2)), prefix)

\* a plausible slip: the night range ends at 03:00 of the base day itself
get_hour_range_same_day(epoch, hours_from, hours_to, prefix) ==
  LET dt1 == replace(fromtimestamp(epoch), hours_from, 0, 0)
      dt2 == IF hours_to = -1
               THEN replace(fromtimestamp(epoch), 3, 0, 0)
               ELSE replace(fromtimestamp(epoch), hours_to, 0, 0)
  IN TimeRange("hourly", Some(timestamp(dt1)), Some(timestamp(dt2)), prefix)

get_hour_range(epoch, hours_from, hours_to, prefix) ==
  LET dt1 == replace(fromtimestamp(epoch), hours_from, 0, 0)
      dt2 == IF hours_to = -1
               THEN replace(fromtimestamp(epoch + 1 * 24 * 60 * 60), 3, 0, 0)
               ELSE replace(fromtimestamp(epoch), hours_to, 0, 0)
  IN TimeRange("hourly", Some(timestamp(dt1)), Some(timestamp(dt2)), prefix)

\* a plausible slip: 'mittag' tested in the order of day_range_symbols, before
\* 'nachmittag'
get_subrange_list_order(s, epoch, prefix) ==
  IF In(s_frueh, s) THEN get_hour_range(epoch, 6, 10, prefix \o s__frueh)
  ELSE IF In(s_vormittag, s) THEN get_hour_range(epoch, 9, 12, prefix \o s__vormittag)
  ELSE IF In(s_mittag, s) THEN get_hour_range(epoch, 11, 14, prefix \o s__mittag)
  ELSE IF In(s_nachmittag, s) THEN get_hour_range(epoch, 14, 17, prefix \o s__nachmittag)
  ELSE IF In(s_abend, s) THEN get_hour_range(epoch, 17, 22, prefix \o s__abend)
  ELSE IF In(s_nacht, s) THEN get_hour_range(epoch, 22, -1, prefix \o s__nacht)
  ELSE None

\* falls off the end (returns None) when no keyword is contained
get_subrange(s, epoch, prefix) ==
  IF In(s_frueh, s) THEN get_hour_range(epoch, 6, 10, prefix \o s__frueh)
  ELSE IF In(s_vormittag, s) THEN get_hour_range(epoch, 9, 12, prefix \o s__vormittag)
  ELSE IF In(s_nachmittag, s) THEN get_hour_range(epoch, 14, 17, prefix \o s__nachmittag)
  ELSE IF In(s_mittag, s) THEN get_hour_range(epoch, 11, 14, prefix \o s__mittag)
  ELSE IF In(s_abend, s) THEN get_hour_range(epoch, 17, 22, prefix \o s__abend)
  ELSE IF In(s_nacht, s) THEN get_hour_range(epoch, 22, -1, prefix \o s__nacht)
  ELSE None

\* a plausible slip: "the coming Saturday", a negative offset moved a week on
get_weekend_range_coming(t) ==
  LET dt == replace(fromtimestamp(t), 0, 0, 0)
      off == 5 - weekday(dt)
      offset == IF off < 0 THEN off + 7 ELSE off
      dt1 == plus_days(dt, offset)
      dt2 == plus_days(dt1, 1)
  IN TimeRange("daily", Some(timestamp(dt1)), Some(timestamp(dt2)), s_AmWochenende)

get_weekend_range(t) ==
  LET dt == replace(fromtimestamp(t), 0, 0, 0)
      offset == 5 - weekday(dt)
      dt1 == plus_days(dt, offset)
      dt2 == plus_days(dt1, 1)
  IN TimeRange("daily", Some(timestamp(dt1)), Some(timestamp(dt2)), s_AmWochenende)

get_week_range(s, t) ==
  LET dt == replace(fromtimestamp(t), 0, 0, 0)
      monday == plus_days(dt, 0 - weekday(dt))
      sunday == plus_days(monday, 6)
  IN IF In(s_naechste, s)
       THEN LET dt1 == plus_days(monday, 7)
                dt2 == plus_days(sunday, 7)
            IN TimeRange("daily", Some(timestamp(dt1)), Some(timestamp(dt2)), s_NaechsteWoche)
       ELSE TimeRange("daily", Some(timestamp(monday)), Some(timestamp(sunday)), s_DieseWoche)

\* a plausible slip: "offset < 0", so that today's weekday resolves to today
get_weekday_today_included(day, t) ==
  LET dt0 == replace(fromtimestamp(t), 0, 0, 0)
      off == day - weekday(dt0)
      offset == IF off < 0 THEN off + 7 ELSE off
      dt1 == plus_days(dt0, offset)
      dt2 == replace(dt1, 23, 59, 59)
  IN TimeRange("daily", Some(timestamp(dt1)), Some(timestamp(dt2)),
               s_am_ \o capitalize(weekdays[day + 1]))

\* a plausible slip: the end of the day taken from today, not from the weekday
get_weekday_end_of_today(day, t) ==
  LET dt0 == replace(fromtimestamp(t), 0, 0, 0)
      off == day - weekday(dt0)
      offset == IF off <= 0 THEN off + 7 ELSE off
      dt1 == plus_days(dt0, offset)
      dt2 == replace(dt0, 23, 59, 59)
  IN TimeRange("daily", Some(timestamp(dt1)), Some(timestamp(dt2)),
               s_am_ \o capitalize(weekdays[day + 1]))

get_weekday(day, t) ==
  LET dt0 == replace(fromtimestamp(t), 0, 0, 0)
      off == day - weekday(dt0)
      offset == IF off <= 0 THEN off + 7 ELSE off
      dt1 == plus_days(dt0, offset)
      dt2 == replace(dt1, 23, 59, 59)
  IN TimeRange("daily", Some(timestamp(dt1)), Some(timestamp(dt2)),
               s_am_ \o capitalize(weekdays[day + 1]))

\* ------------------------------------------------------------ get_timerange
Currently == TimeRange("currently", None, None, s_Jetzt)

\* "not time_string": None and '' are both falsy
falsy_str(ts) == ts = None \/ ts = Some(<<>>)

\* a plausible slip: 'morgen' matched by containment instead of equality
get_timerange_morgen_contained(ts, t) ==
  IF falsy_str(ts) THEN Currently
  ELSE
    LET s == ts[1]
        contained_weekdays == SelectSeq(weekdays, LAMBDA day : In(day, s))
        contained_day_range_symbols == SelectSeq(day_range_symbols, LAMBDA sym : In(sym, s))
    IN IF contained_weekdays # <<>>
         THEN get_weekday(index(weekdays, contained_weekdays[1]), t)
       ELSE IF In(s_wochenende, s) \/ (In(s_woche, s) /\ In(s_ende, s))
         THEN get_weekend_range(t)
       ELSE IF In(s_woche, s)
         THEN get_week_range(s, t)
       ELSE IF s = s_heute
         THEN get_day_range(t, s_Heute)
       ELSE IF In(s_morgen, s)
         THEN get_day_range(t + 1 * 24 * 60 * 60, s_Morgen)
       ELSE IF endswith(s, s_bermorgen)
         THEN get_day_range(t + 2 * 24 * 60 * 60, s_Uebermorgen)
       ELSE IF contained_day_range_symbols # <<>>
         THEN IF In(s_bermorgen, s)
                THEN get_subrange(s, t + 2 * 24 * 60 * 60, s_Uebermorgen)
              ELSE IF In(s_morgen, s)
                THEN get_subrange(s, t + 1 * 24 * 60 * 60, s_Morgen)
              ELSE get_subrange(s, t, s_Heute)
       ELSE Currently

\* a plausible slip: the hour range of a day tested before the weekday names
get_timerange_day_range_first(ts, t) ==
  IF falsy_str(ts) THEN Currently
  ELSE
    LET s == ts[1]
        contained_weekdays == SelectSeq(weekdays, LAMBDA day : In(day, s))
        contained_day_range_symbols == SelectSeq(day_range_symbols, LAMBDA sym : In(sym, s))
    IN IF contained_day_range_symbols # <<>>
         THEN IF In(s_bermorgen, s)
                THEN get_subrange(s, t + 2 * 24 * 60 * 60, s_Uebermorgen)
              ELSE IF In(s_morgen, s)
                THEN get_subrange(s, t + 1 * 24 * 60 * 60, s_Morgen)
              ELSE get_subrange(s, t, s_Heute)
       ELSE IF contained_weekdays # <<>>
         THEN get_weekday(index(weekdays, contained_weekdays[1]), t)
       ELSE IF In(s_wochenende, s) \/ (In(s_woche, s) /\ In(s_ende, s))
         THEN get_weekend_range(t)
       ELSE IF In(s_woche, s)
         THEN get_week_range(s, t)
       ELSE IF s = s_heute
         THEN get_day_range(t, s_Heute)
       ELSE IF s = s_morgen
         THEN get_day_range(t + 1 * 24 * 60 * 60, s_Morgen)
       ELSE IF endswith(s, s_bermorgen)
         THEN get_day_range(t + 2 * 24 * 60 * 60, s_Uebermorgen)
       ELSE Currently

\* get_timerange(time_string), with the value of time.time() as t (each path
\* reads the clock once)
get_timerange(ts, t) ==
  IF falsy_str(ts) THEN Currently
  ELSE
    LET s == ts[1]
        contained_weekdays == SelectSeq(weekdays, LAMBDA day : In(day, s))
        contained_day_range_symbols == SelectSeq(day_range_symbols, LAMBDA sym : In(sym, s))
    IN IF contained_weekdays # <<>>
         THEN get_weekday(index(weekdays, contained_weekdays[1]), t)
       ELSE IF In(s_wochenende, s) \/ (In(s_woche, s) /\ In(s_ende, s))
         THEN get_weekend_range(t)
       ELSE IF In(s_woche, s)
         THEN get_week_range(s, t)
       ELSE IF s = s_heute
         THEN get_day_range(t, s_Heute)
       ELSE IF s = s_morgen
         THEN get_day_range(t + 1 * 24 * 60 * 60, s_Morgen)
       ELSE IF endswith(s, s_bermorgen)
         THEN get_day_range(t + 2 * 24 * 60 * 60, s_Uebermorgen)
       ELSE IF contained_day_range_symbols # <<>>
         THEN IF In(s_bermorgen, s)
                THEN get_subrange(s, t + 2 * 24 * 60 * 60, s_Uebermorgen)
              ELSE IF In(s_morgen, s)
                THEN get_subrange(s, t + 1 * 24 * 60 * 60, s_Morgen)
              ELSE get_subrange(s, t, s_Heute)
       ELSE Currently

\* ----------------------------------------------------------- select_weather
\* d[k] raises KeyError unless k is a key of the dict d
has_key(d, k) == k \in DOMAIN d

\* the records of a series with tme_from <= time <= tme_to, in list order
in_range(data, tme_from, tme_to) ==
  SelectSeq(data, LAMBDA r : r["time"] >= tme_from /\ r["time"] <= tme_to)

\* the list comprehension over weather[series]['data'] runs without a KeyError
series_ok(w, series) ==
  /\ has_key(w, series)
  /\ has_key(w[series], "data")
  /\ \A i \in 1..Len(w[series]["data"]) : has_key(w[series]["data"][i], "time")

\* a plausible slip: the upper bound excluded (time < tme_to)
select_weather_upper_exclusive(w, scale, tme_from, tme_to) ==
  IF scale = "currently"
    THEN IF has_key(w, "currently") THEN <<w["currently"], None>> ELSE None
  ELSE IF series_ok(w, "hourly") /\ series_ok(w, "daily")
    THEN LET hours == SelectSeq(w["hourly"]["data"],
                                LAMBDA r : r["time"] >= tme_from[1] /\ r["time"] < tme_to[1])
             days == SelectSeq(w["daily"]["data"],
                               LAMBDA r : r["time"] >= tme_from[1] /\ r["time"] < tme_to[1])
         IN <<hours, Some(days)>>
  ELSE None

\* select_weather(weather, scale, tme_from, tme_to): the pair (record, None)
\* or (hours, days); None when the try block raised (a key is missing)
select_weather(w, scale, tme_from, tme_to) ==
  IF scale = "currently"
    THEN IF has_key(w, "currently") THEN <<w["currently"], None>> ELSE None
  ELSE IF series_ok(w, "hourly") /\ series_ok(w, "daily")
    THEN LET hours == in_range(w["hourly"]["data"], tme_from[1], tme_to[1])
             days == in_range(w["daily"]["data"], tme_from[1], tme_to[1])
         IN <<hours, Some(days)>>
  ELSE None


\* ----------------------------------------------------- str literals, replies
t_dot == <<".">>
t_Vermutlich == <<" ", "V", "e", "r", "m", "u", "t", "l", "i", "c", "h", " ">>
t_am == <<" ", "a", "m", " ">>
t_und == <<" ", "u", "n", "d", " ">>
t_DasWetterIstAktuell == <<"D", "a", "s", " ", "W", "e", "t", "t", "e", "r", " ", "i", "s", "t", " ", "a", "k", "t", "u", "e", "l", "l", " ">>
t_TemperaturLiegtBei == <<" ", "T", "e", "m", "p", "e", "r", "a", "t", "u", "r", " ", "l", "i", "e", "g", "t", " ", "b", "e", "i", " ">>
t_Grad == <<" ", "G", "r", "a", "d", ".">>
t_Wetter == <<"W", "e", "t", "t", "e", "r", " ">>
t_colon == <<":", " ">>
t_TemperaturenZwischen == <<" ", "T", "e", "m", "p", "e", "r", "a", "t", "u", "r", "e", "n", " ", "z", "w", "i", "s", "c", "h", "e", "n", " ">>
t_WetterAm == <<"W", "e", "t", "t", "e", "r", " ", "a", "m", " ">>
t_space == <<" ">>
t_DieTemperaturenLiegenZwischen == <<" ", "D", "i", "e", " ", "T", "e", "m", "p", "e", "r", "a", "t", "u", "r", "e", "n", " ", "l", "i", "e", "g", "e", "n", " ", "z", "w", "i", "s", "c", "h", "e", "n", " ">>
t_Regen == <<"R", "e", "g", "e", "n">>
t_Schnee == <<"S", "c", "h", "n", "e", "e">>
t_Gewitter == <<"G", "e", "w", "i", "t", "t", "e", "r">>
t_EsSindGerade == <<"E", "s", " ", "s", "i", "n", "d", " ", "g", "e", "r", "a", "d", "e", " ">>
t_WirdEsEtwa == <<" ", "w", "i", "r", "d", " ", "e", "s", " ", "e", "t", "w", "a", " ">>
t_GradWarm == <<" ", "G", "r", "a", "d", " ", "w", "a", "r", "m", ".">>
t_WirdEsZwischen == <<" ", "w", "i", "r", "d", " ", "e", "s", " ", "z", "w", "i", "s", "c", "h", "e", "n", " ">>
t_JaEsIstGeradeSonnig == <<"J", "a", ",", " ", "e", "s", " ", "i", "s", "t", " ", "g", "e", "r", "a", "d", "e", " ", "s", "o", "n", "n", "i", "g", ".">>
t_NeinIstIstGerade == <<"N", "e", "i", "n", ",", " ", "i", "s", "t", " ", "i", "s", "t", " ", "g", "e", "r", "a", "d", "e", " ">>
t_eher == <<"e", "h", "e", "r", " ">>
t_bewoelkt == <<"b", "e", "w", "oe", "l", "k", "t", ".">>
t_NeinIchDenkeNicht == <<"N", "e", "i", "n", ",", " ", "i", "c", "h", " ", "d", "e", "n", "k", "e", " ", "n", "i", "c", "h", "t", ".">>
t_IchDenkeNichtDassEsGerade == <<"I", "c", "h", " ", "d", "e", "n", "k", "e", " ", "n", "i", "c", "h", "t", ",", " ", "d", "a", "s", "s", " ", "e", "s", " ", "g", "e", "r", "a", "d", "e", " ">>
t_regnet == <<"r", "e", "g", "n", "e", "t", ".">>
t_schneit == <<"s", "c", "h", "n", "e", "i", "t", ".">>
t_JaEs == <<"J", "a", ",", " ", "e", "s", " ">>
t_regnetGerade == <<"r", "e", "g", "n", "e", "t", " ", "g", "e", "r", "a", "d", "e">>
t_schneitGerade == <<"s", "c", "h", "n", "e", "i", "t", " ", "g", "e", "r", "a", "d", "e">>
t_vermutlichDot == <<" ", "v", "e", "r", "m", "u", "t", "l", "i", "c", "h", ".">>
t_regnetGeradeDot == <<"r", "e", "g", "n", "e", "t", " ", "g", "e", "r", "a", "d", "e", ".">>
t_schneitGeradeDot == <<"s", "c", "h", "n", "e", "i", "t", " ", "g", "e", "r", "a", "d", "e", ".">>
t_Gegen == <<"G", "e", "g", "e", "n", " ">>
t_WirdEs_ == <<" ", "w", "i", "r", "d", " ", "e", "s", " ">>
t_sonnig == <<"s", "o", "n", "n", "i", "g", ".">>
t_EinBisschenSonneGeben == <<"e", "i", "n", " ", "b", "i", "s", "s", "c", "h", "e", "n", " ", "S", "o", "n", "n", "e", " ", "g", "e", "b", "e", "n", ".">>
t_WirdEsGegen == <<" ", "w", "i", "r", "d", " ", "e", "s", " ", "g", "e", "g", "e", "n", " ">>
t_Am == <<"A", "m", " ">>
t_WirdEs == <<" ", "w", "i", "r", "d", " ", "e", "s">>
t_vermutlich == <<" ", "v", "e", "r", "m", "u", "t", "l", "i", "c", "h">>
t_gegen == <<" ", "g", "e", "g", "e", "n", " ">>
t_regnen == <<"r", "e", "g", "n", "e", "n", ".">>
t_hageln == <<"h", "a", "g", "e", "l", "n", ".">>
t_GewitterGeben == <<"G", "e", "w", "i", "t", "t", "e", "r", " ", "g", "e", "b", "e", "n", ".">>
t_Uhr == <<" ", "U", "h", "r">>
i_clear_day == <<"c", "l", "e", "a", "r", "-", "d", "a", "y">>
i_partly_cloudy_day == <<"p", "a", "r", "t", "l", "y", "-", "c", "l", "o", "u", "d", "y", "-", "d", "a", "y">>
i_cloudy == <<"c", "l", "o", "u", "d", "y">>
i_rain == <<"r", "a", "i", "n">>
i_hail == <<"h", "a", "i", "l">>
i_thunderstorm == <<"t", "h", "u", "n", "d", "e", "r", "s", "t", "o", "r", "m">>
i_snow == <<"s", "n", "o", "w">>

\* summaries and icons of the sample records (values of the forecast payload)
Samples ==
  [bewoelkt |-> <<"b", "e", "w", "oe", "l", "k", "t">>,
   Klar |-> <<"K", "l", "a", "r">>,
   LeichtBewoelkt |-> <<"L", "e", "i", "c", "h", "t", " ", "b", "e", "w", "oe", "l", "k", "t", ".">>,
   Regen |-> <<"R", "e", "g", "e", "n">>,
   RegenDot |-> <<"R", "e", "g", "e", "n", ".">>,
   Heiter |-> <<"H", "e", "i", "t", "e", "r">>,
   Schnee |-> <<"S", "c", "h", "n", "e", "e", "f", "a", "l", "l", ".">>,
   Gewitter |-> <<"G", "e", "w", "i", "t", "t", "e", "r">>,
   fog |-> <<"f", "o", "g">>,
   wind |-> <<"w", "i", "n", "d">>]

\* --------------------------------------------------------- numbers and text
\* Temperatures are held in tenths of a degree (124 is 12.4), probabilities in
\* percent (30 is 0.3), so that round() and the thresholds 0.3 and 0.75 are
\* exact integer tests.

\* round(x) of Python 3 for x = v / 10: to the nearest integer, ties to even
round(v) ==
  LET q == v \div 10
      r == v % 10
  IN IF r < 5 THEN q
     ELSE IF r > 5 THEN q + 1
     ELSE IF q % 2 = 0 THEN q ELSE q + 1

digit(d) == <<"0", "1", "2", "3", "4", "5", "6", "7", "8", "9">>[d + 1]

RECURSIVE str_nat(_)
str_nat(n) == IF n < 10 THEN <<digit(n)>> ELSE str_nat(n \div 10) \o <<digit(n % 10)>>

\* str(n) for an int n
str(n) == IF n < 0 THEN <<"-">> \o str_nat(0 - n) ELSE str_nat(n)

\* dt.strftime("%H:%M Uhr")
strftime(dt) ==
  <<digit(dt.hour \div 10), digit(dt.hour % 10), ":",
    digit(dt.minute \div 10), digit(dt.minute % 10)>> \o t_Uhr

\* min(list), max(list) of a non-empty list of numbers
min(list) == CHOOSE x \in {list[i] : i \in 1..Len(list)} : \A i \in 1..Len(list) : x <= list[i]
max(list) == CHOOSE x \in {list[i] : i \in 1..Len(list)} : \A i \in 1..Len(list) : x >= list[i]

RECURSIVE join(_, _)
\* sep.join(list)
join(sep, list) ==
  IF list = <<>> THEN <<>>
  ELSE IF Len(list) = 1 THEN list[1]
  ELSE list[1] \o sep \o join(sep, Tail(list))

\* [w[key] for w in list]
column(list, key) == [i \in 1..Len(list) |-> list[i][key]]

\* every record of the list has the key (the comprehension raises otherwise)
all_have(list, key) == \A i \in 1..Len(list) : has_key(list[i], key)

\* self.weekdays[datetime.fromtimestamp(t).weekday()].capitalize()
day_name(t) == capitalize(weekdays[weekday(fromtimestamp(t)) + 1])

\* what a call did: returned value (None or Some(str)), or raised
Return(v) == [raised |-> FALSE, value |-> v]
Raise == [raised |-> TRUE, value |-> None]

\* a is not b: unequal strings are never the same object; equal strings are
\* the same object or not, as the interpreter happened to build them
is_not(a, b, same_object) == a # b \/ ~same_object

\* --------------------------------------------------------- process_forecast
get_summary(wx_object, remove_dot) ==
  LET sum == wx_object["summary"]
      sum1 == IF ~remove_dot /\ ~endswith(sum, t_dot) THEN sum \o t_dot ELSE sum
  IN IF remove_dot /\ endswith(sum1, t_dot) THEN SubSeq(sum1, 1, Len(sum1) - 1) ELSE sum1

get_wx_on(what, data) ==
  IF Len(data) = 1
    THEN t_Vermutlich \o what \o t_am \o data[1] \o t_dot
  ELSE IF data # <<>>
    THEN t_Vermutlich \o what \o t_am \o join(<<",", " ">>, SubSeq(data, 1, Len(data) - 1))
           \o t_und \o data[Len(data)] \o t_dot
  ELSE <<>>

\* the weekday names of the days after the first whose icon is the given one
wx_days(days, icon) ==
  LET hit == SelectSeq(days, LAMBDA w : w["icon"] = icon /\ w["time"] # days[1]["time"])
  IN [i \in 1..Len(hit) |-> day_name(hit[i]["time"])]

process_forecast(scale, weather_hours_and_days, prefix) ==
  IF scale = "currently" THEN
    LET w == weather_hours_and_days[1]
    IN IF ~has_key(w, "summary") \/ ~has_key(w, "temperature") THEN Raise
       ELSE Return(Some(t_DasWetterIstAktuell \o get_summary(w, FALSE) \o t_TemperaturLiegtBei
                          \o str(round(w["temperature"])) \o t_Grad))
  ELSE IF scale = "daily" THEN
    LET days == weather_hours_and_days[2][1]
    IN IF ~all_have(days, "temperatureMax") \/ ~all_have(days, "temperatureMin") THEN Raise
       ELSE
         LET temps_max == column(days, "temperatureMax")
             temps_min == column(days, "temperatureMin")
         IN IF Len(days) = 1 THEN
              IF ~has_key(days[1], "summary") THEN Raise
              ELSE Return(Some(t_Wetter \o prefix \o t_colon \o get_summary(days[1], FALSE)
                                 \o t_TemperaturenZwischen \o str(round(days[1]["temperatureMin"]))
                                 \o t_und \o str(round(days[1]["temperatureMax"])) \o t_Grad))
            ELSE IF Len(days) = 2 THEN
              IF ~has_key(days[1], "summary") \/ ~has_key(days[2], "summary") THEN Raise
              ELSE
                LET day1 == day_name(days[1]["time"])
                    day2 == day_name(days[2]["time"])
                    resTemp == t_DieTemperaturenLiegenZwischen \o str(round(min(temps_min)))
                                 \o t_und \o str(round(max(temps_max))) \o t_Grad
                IN IF days[1]["summary"] = days[2]["summary"]
                     THEN Return(Some(t_WetterAm \o day1 \o t_und \o day2 \o t_colon
                                        \o get_summary(days[1], FALSE) \o t_space \o resTemp))
                     ELSE Return(Some(t_WetterAm \o day1 \o t_colon \o get_summary(days[1], FALSE)
                                        \o t_space \o day2 \o t_space \o get_summary(days[2], FALSE)
                                        \o resTemp))
            ELSE
              IF days = <<>> \/ ~all_have(days, "icon") \/ ~has_key(days[1], "summary") THEN Raise
              ELSE
                LET rain_on == get_wx_on(t_Regen, wx_days(days, i_rain))
                    snow_on == get_wx_on(t_Schnee, wx_days(days, i_snow))
                    thunder_on == get_wx_on(t_Gewitter, wx_days(days, i_thunderstorm))
                    res1 == t_WetterAm \o day_name(days[1]["time"]) \o t_colon
                              \o get_summary(days[1], FALSE)
                    temp == t_TemperaturenZwischen \o str(round(min(temps_min))) \o t_und
                              \o str(round(max(temps_max))) \o t_Grad
                IN Return(Some(res1 \o rain_on \o snow_on \o thunder_on \o temp))
  ELSE
    LET hours == weather_hours_and_days[1]
    IN IF hours = <<>> \/ ~all_have(hours, "temperature")
            \/ ~has_key(hours[1], "summary") \/ ~has_key(hours[Len(hours)], "summary") THEN Raise
       ELSE
         LET temps == column(hours, "temperature")
             tail == t_TemperaturenZwischen \o str(round(min(temps))) \o t_und
                       \o str(round(max(temps))) \o t_Grad
         IN IF hours[1]["summary"] = hours[Len(hours)]["summary"]
              THEN Return(Some(t_Wetter \o prefix \o t_colon \o get_summary(hours[1], FALSE) \o tail))
              ELSE Return(Some(t_Wetter \o prefix \o t_colon \o get_summary(hours[1], TRUE) \o <<" ", "b", "i", "s", " ">>
                                 \o get_summary(hours[Len(hours)], FALSE) \o tail))

\* ------------------------------------------------------ process_temperature
process_temperature(scale, weather_hours_and_days, prefix) ==
  LET weather == weather_hours_and_days[1]
  IN IF scale = "currently" /\ has_key(weather, "temperature")
       THEN Return(Some(t_EsSindGerade \o str(round(weather["temperature"])) \o t_Grad))
     ELSE IF scale = "currently"
       \* the else branch indexes and iterates the record as if it were a list
       THEN Raise
     ELSE IF Len(weather) = 1
       THEN IF ~has_key(weather[1], "temperature") THEN Raise
            ELSE Return(Some(prefix \o t_WirdEsEtwa \o str(round(weather[1]["temperature"]))
                               \o t_GradWarm))
     ELSE IF weather = <<>> \/ ~all_have(weather, "temperature") THEN Raise
     ELSE LET temps == column(weather, "temperature")
          IN Return(Some(prefix \o t_WirdEsZwischen \o str(round(min(temps))) \o t_und
                           \o str(round(max(temps))) \o t_GradWarm))

\* -------------------------------------------------------------- process_has
\* (variant) the record matches whatever precipitation type it carries
precip_match_any_type(w, icon, what) ==
  \/ w["icon"] = icon
  \/ /\ has_key(w, "precipType")
     /\ has_key(w, "precipProbability")
     /\ w["precipProbability"] > 30

\* the record matches in the list comprehension for the given icon
precip_match(w, icon, what) ==
  \/ w["icon"] = icon
  \/ /\ has_key(w, "precipType")
     /\ w["precipType"] = what
     /\ has_key(w, "precipProbability")
     /\ w["precipProbability"] > 30

process_has(what, scale, weather_hours_and_days, prefix, same_object) ==
  LET weather == weather_hours_and_days[1]
      weather_days == weather_hours_and_days[2]
  IN
  IF scale = "currently" THEN
    IF what = "sun" THEN
      IF has_key(weather, "icon") /\ weather["icon"] = i_clear_day
        THEN Return(Some(t_JaEsIstGeradeSonnig))
      ELSE IF has_key(weather, "icon") /\ In(i_cloudy, weather["icon"])
        THEN Return(Some(t_NeinIstIstGerade
                           \o (IF is_not(weather["icon"], i_cloudy, same_object) THEN t_eher ELSE <<>>)
                           \o t_bewoelkt))
      ELSE Return(Some(t_NeinIchDenkeNicht))
    ELSE
      IF \/ ~has_key(weather, "precipType")
         \/ is_not(weather["precipType"], what, same_object)
         \/ ~has_key(weather, "precipProbability")
         \/ weather["precipProbability"] < 30
        THEN Return(Some(t_IchDenkeNichtDassEsGerade
                           \o (IF what = "rain" THEN t_regnet ELSE t_schneit)))
      ELSE IF weather["precipProbability"] < 75
        THEN Return(Some(t_JaEs \o (IF what = "rain" THEN t_regnetGerade ELSE t_schneitGerade)
                           \o t_vermutlichDot))
      ELSE Return(Some(t_JaEs \o (IF what = "rain" THEN t_regnetGeradeDot ELSE t_schneitGeradeDot)))
  ELSE
    IF ~all_have(weather, "icon") THEN Raise
    ELSE IF what = "sun" THEN
      LET hasSun == SelectSeq(weather, LAMBDA w : w["icon"] = i_clear_day)
          hasPartly == SelectSeq(weather, LAMBDA w : w["icon"] = i_partly_cloudy_day)
      IN IF hasSun = <<>> /\ hasPartly = <<>> THEN Return(Some(t_NeinIchDenkeNicht))
         ELSE
           LET w == IF hasSun # <<>> THEN hasSun[1] ELSE hasPartly[1]
               dt == fromtimestamp(w["time"])
               day == weekdays[weekday(dt) + 1]
               when == strftime(dt)
               sunny == IF hasSun # <<>> THEN t_sonnig ELSE t_EinBisschenSonneGeben
           IN IF scale = "hourly"
                THEN Return(Some(t_Gegen \o when \o t_WirdEs_ \o sunny))
              ELSE IF weather_days = None THEN Raise
              ELSE IF Len(weather_days[1]) = 1
                THEN Return(Some(prefix \o t_WirdEsGegen \o when \o t_space \o sunny))
              ELSE Return(Some(t_Am \o capitalize(day) \o t_WirdEsGegen \o when \o t_space \o sunny))
    ELSE
      LET hasRain == SelectSeq(weather, LAMBDA w : precip_match(w, i_rain, what))
          hasHail == SelectSeq(weather, LAMBDA w : precip_match(w, i_hail, what))
          hasThunder == SelectSeq(weather, LAMBDA w : precip_match(w, i_thunderstorm, what))
      IN IF hasRain = <<>> /\ hasHail = <<>> /\ hasThunder = <<>>
           THEN Return(Some(t_NeinIchDenkeNicht))
         ELSE
           LET w == IF hasRain # <<>> THEN hasRain[1]
                    ELSE IF hasHail # <<>> THEN hasHail[1] ELSE hasThunder[1]
               dt == fromtimestamp(w["time"])
               day == weekdays[weekday(dt) + 1]
               when == strftime(dt)
               verb == IF hasRain # <<>> THEN t_regnen
                       ELSE IF hasHail # <<>> THEN t_hageln ELSE t_GewitterGeben
           IN IF ~has_key(w, "precipProbability") THEN Raise
              ELSE IF w["precipProbability"] < 30 THEN Return(Some(t_NeinIchDenkeNicht))
              ELSE
                LET prob == IF w["precipProbability"] < 75 THEN t_vermutlich ELSE <<>>
                IN IF scale = "hourly"
                     THEN Return(Some(t_Gegen \o when \o t_WirdEs_ \o verb))
                   ELSE IF weather_days = None THEN Raise
                   ELSE IF Len(weather_days[1]) = 1
                     THEN Return(Some(prefix \o t_WirdEs_ \o verb))
                   ELSE Return(Some(t_Am \o capitalize(day) \o t_WirdEs \o prob \o t_gegen
                                      \o when \o t_space \o verb))

\* --------------------------------------------------------- process_response
\* "not x" for a dict or a list: it is empty
falsy(x) == DOMAIN x = {}

\* "not weather[1]": None or an empty list
falsy_days(x) == x = None \/ x[1] = <<>>

\* (variant) the daily records are required for every scale
answer_days_required(intent, tr, weather, same_object) ==
  LET scale == tr.scale
      prefix == tr.prefix
  IN IF weather = None \/ falsy(weather[1]) \/ falsy_days(weather[2])
       THEN Return(None)
     ELSE IF intent = "s710:getForecast"
       THEN process_forecast(scale, weather, prefix)
     ELSE IF intent = "s710:getTemperature"
       THEN process_temperature(scale, weather, prefix)
     ELSE IF intent = "s710:hasRain"
       THEN process_has("rain", scale, weather, prefix, same_object)
     ELSE IF intent = "s710:hasSun"
       THEN process_has("sun", scale, weather, prefix, same_object)
     ELSE IF intent = "s710:hasSnow"
       THEN process_has("snow", scale, weather, prefix, same_object)
     ELSE Return(None)

\* process_response from line 232 on: tr is what get_timerange returned and
\* weather what select_weather returned
answer(intent, tr, weather, same_object) ==
  LET scale == tr.scale
      prefix == tr.prefix
  IN IF weather = None \/ falsy(weather[1]) \/ (scale = "daily" /\ falsy_days(weather[2]))
       THEN Return(None)
     ELSE IF intent = "s710:getForecast"
       THEN process_forecast(scale, weather, prefix)
     ELSE IF intent = "s710:getTemperature"
       THEN process_temperature(scale, weather, prefix)
     ELSE IF intent = "s710:hasRain"
       THEN process_has("rain", scale, weather, prefix, same_object)
     ELSE IF intent = "s710:hasSun"
       THEN process_has("sun", scale, weather, prefix, same_object)
     ELSE IF intent = "s710:hasSnow"
       THEN process_has("snow", scale, weather, prefix, same_object)
     ELSE Return(None)

\* ---------------------------------------------------------- get_request_url
FORECAST_URL == "https://api.darksky.net/forecast/"

\* get_request_url(city, coordinates); geocoded is what the geolocator finds
\* for the city: None (lookup failed) or Some((latitude, longitude))
get_request_url(city_name, coordinates, key, geocoded) ==
  LET location == IF city_name # None THEN geocoded ELSE coordinates
  IN IF location = None THEN Return(None)
     \* str + None is a TypeError
     ELSE IF key = None THEN Raise
     ELSE Return(Some(<<FORECAST_URL, key[1], "/", location[1][1], ",", location[1][2]>>))

\* a plausible slip: process_response called outside a try block
call_process_response_unguarded(r) ==
  [failed |-> r.raised, escaped |-> r.raised, message |-> r.value]

\* query_weather, lines 198-202: process_response inside try/except; r is
\* what process_response did
call_process_response(r) ==
  [failed |-> r.raised, escaped |-> FALSE, message |-> r.value]

\* --------------------------------------------------------------- the inputs
\* the words a phrase is built from: every keyword of the resolver and one
\* word ('jetzt') that no rule knows
Words ==
  {weekdays[i] : i \in 1..Len(weekdays)} \cup
  {s_frueh, s_vormittag, s_mittag, s_nachmittag, s_abend, s_nacht,
   s_wochenende, s_woche, s_ende, s_naechste,
   s_heute, s_morgen, s_uebermorgen, s_jetzt}

RECURSIVE PhrasesOf(_)
\* the phrases of 1..n words, joined by single blanks
PhrasesOf(n) ==
  IF n <= 1 THEN Words
  ELSE LET P == PhrasesOf(n - 1)
       IN P \cup {p \o <<" ">> \o w : p \in P, w \in Words}

\* time slot values: absent, empty, or a lower-cased phrase
TimeStrings == {None, Some(<<>>)} \cup {Some(p) : p \in PhrasesOf(MaxWords)}

\* wall-clock readings: start of day, mid-morning, last second of the day
ClockTimes == {0, 10 * 3600, 23 * 3600 + 59 * 60 + 59}
Nows == {d * SecondsPerDay + c : d \in 0..MaxDay, c \in ClockTimes}

\* no payload decoded (the resolver does not read one)
NoPayload == <<>>

NotCalled == TimeRange("", None, None, <<>>)

QueryVars == <<intent_name, city, api_key, home_location, response, published, stage, slots>>

\* no request is in progress (the resolver and the selector alone are run)
NoQuery ==
  /\ intent_name = ""
  /\ city = None
  /\ api_key = None
  /\ home_location = None
  /\ response = Return(None)
  /\ published = <<>>
  /\ stage = "idle"
  /\ slots = [time |-> None, location |-> None, fault |-> "none"]

\* ------------------------------------------- the resolver as a state machine
InitTime ==
  /\ pc = "start"
  /\ time_string \in TimeStrings
  /\ now \in Nows
  /\ timerange = NotCalled
  /\ payload = NoPayload
  /\ selection = None
  /\ NoQuery

\* one call of get_timerange(time_string) at wall-clock time now
GetTimerange ==
  /\ pc = "start"
  /\ timerange' = get_timerange(time_string, now)
  /\ pc' = "done"
  /\ UNCHANGED <<time_string, now, payload, selection>>
  /\ UNCHANGED QueryVars

NextTime == GetTimerange

SpecTime == InitTime /\ [][NextTime]_vars

\* ---------------------------------------------- the selector's inputs
\* the readings of the clock used for the payloads: Monday 10:00
Now0 == 10 * 3600

RECURSIVE SeqsUpTo(_, _)
\* the lists of at most n elements of S
SeqsUpTo(S, n) ==
  IF n = 0 THEN {<<>>}
  ELSE LET P == SeqsUpTo(S, n - 1)
       IN P \cup {Append(p, x) : p \in P, x \in S}

\* the windows of 'nacht' (Monday 22:00 .. Tuesday 03:00) and of 'morgen'
\* (Tuesday 00:00:00 .. 23:59:59), and no window
SelectRanges ==
  {Currently,
   get_timerange(Some(s_nacht), Now0),
   get_timerange(Some(s_morgen), Now0)}

\* hourly records: before the night window, on its first second, at midnight,
\* on its last second, after it; and a record without 'time'
HourRecords ==
  {[time |-> 21 * 3600, icon |-> i_cloudy],
   [time |-> 22 * 3600, icon |-> i_rain],
   [time |-> SecondsPerDay, icon |-> i_clear_day],
   [time |-> SecondsPerDay + 3 * 3600, icon |-> i_snow],
   [time |-> SecondsPerDay + 4 * 3600, icon |-> i_hail],
   [icon |-> Samples.fog]}

\* daily records: Monday, Tuesday, Wednesday (each at 00:00)
DayRecords ==
  {[time |-> 0, icon |-> i_cloudy],
   [time |-> SecondsPerDay, icon |-> i_rain],
   [time |-> 2 * SecondsPerDay, icon |-> i_clear_day]}

CurrentRecord == [time |-> Now0, icon |-> Samples.wind]

\* a payload with all three parts, and the payloads that lack one of them
SelectPayloads ==
  LET Full == {[currently |-> CurrentRecord, hourly |-> [data |-> h], daily |-> [data |-> d]] :
                 h \in SeqsUpTo(HourRecords, MaxSeries), d \in SeqsUpTo(DayRecords, MaxSeries)}
      h0 == <<[time |-> 22 * 3600, icon |-> i_rain]>>
      d0 == <<[time |-> SecondsPerDay, icon |-> i_rain]>>
  IN Full \cup
     {[hourly |-> [data |-> h0], daily |-> [data |-> d0]],
      [currently |-> CurrentRecord, daily |-> [data |-> d0]],
      [currently |-> CurrentRecord, hourly |-> [data |-> h0]],
      [currently |-> CurrentRecord, hourly |-> [data |-> h0], daily |-> <<>>]}

\* ------------------------------------------- the selector as a state machine
InitSelect ==
  /\ pc = "start"
  /\ time_string = None
  /\ now = Now0
  /\ timerange \in SelectRanges
  /\ payload \in SelectPayloads
  /\ selection = None
  /\ NoQuery

\* one call of select_weather(weather, scale, tme_from, tme_to)
SelectWeather ==
  /\ pc = "start"
  /\ selection' = select_weather(payload, timerange.scale, timerange.from, timerange.to)
  /\ pc' = "done"
  /\ UNCHANGED <<time_string, now, timerange, payload>>
  /\ UNCHANGED QueryVars

NextSelect == SelectWeather

SpecSelect == InitSelect /\ [][NextSelect]_vars

\* ------------------------------------------------- the inputs of a request
\* the lists of SeqsUpTo(S, n) whose times strictly ascend, as the forecast
\* service delivers a series
SortedSeqs(S, n) ==
  {s \in SeqsUpTo(S, n) : \A i \in 1..(Len(s) - 1) : s[i]["time"] < s[i + 1]["time"]}

\* the current record: complete, and without precipitation fields
CurrentBase == [time |-> Now0, summary |-> Samples.bewoelkt, icon |-> i_cloudy, temperature |-> 124]

\* probabilities on both sides of the thresholds 0.3 and 0.75
Probabilities == {0, 29, 30, 74, 75, 100}

CurrentRecords ==
  {CurrentBase}
  \cup {[time |-> Now0, summary |-> Samples.Regen, icon |-> i_rain, temperature |-> 125,
         precipType |-> ty, precipProbability |-> p] : ty \in {"rain", "snow"}, p \in Probabilities}
  \cup {[time |-> Now0, summary |-> Samples.Regen, icon |-> i_rain, temperature |-> 135,
         precipType |-> ty] : ty \in {"rain", "snow"}}
  \cup {[time |-> Now0, summary |-> Samples.Regen, icon |-> i_rain, temperature |-> -5,
         precipProbability |-> p] : p \in Probabilities}
  \cup {[time |-> Now0, summary |-> Samples.Klar, icon |-> ic, temperature |-> 95] :
          ic \in {i_clear_day, i_partly_cloudy_day, Samples.wind}}
  \cup {[time |-> Now0, summary |-> Samples.Klar, temperature |-> 95],
        [time |-> Now0, summary |-> Samples.Klar, icon |-> i_clear_day],
        [time |-> Now0, icon |-> i_clear_day, temperature |-> 95],
        <<>>}

\* hourly records of Monday: 12:00, 17:00, 18:00, 19:00, 22:00
HourlyPool ==
  {[time |-> 12 * 3600, summary |-> Samples.Klar, icon |-> i_clear_day, temperature |-> 151,
    precipProbability |-> 0],
   [time |-> 17 * 3600, summary |-> Samples.LeichtBewoelkt, icon |-> i_partly_cloudy_day,
    temperature |-> 124, precipProbability |-> 10],
   [time |-> 18 * 3600, summary |-> Samples.Regen, icon |-> i_rain, temperature |-> 98,
    precipType |-> "rain", precipProbability |-> 80],
   [time |-> 18 * 3600, summary |-> Samples.Klar, icon |-> i_cloudy, temperature |-> 95,
    precipType |-> "snow", precipProbability |-> 50],
   [time |-> 19 * 3600, summary |-> Samples.Regen, icon |-> i_rain, temperature |-> 101],
   [time |-> 19 * 3600, summary |-> Samples.Gewitter, icon |-> i_thunderstorm,
    precipType |-> "rain", precipProbability |-> 20],
   [time |-> 22 * 3600, summary |-> Samples.RegenDot, icon |-> i_hail, temperature |-> 85,
    precipType |-> "rain", precipProbability |-> 30]}

\* daily records: Monday, Tuesday, Wednesday, Saturday (each at 00:00)
DailyPool ==
  {[time |-> 0, summary |-> Samples.Heiter, icon |-> i_clear_day, temperatureMin |-> 75,
    temperatureMax |-> 185, precipProbability |-> 10],
   [time |-> 0, summary |-> Samples.RegenDot, icon |-> i_rain, temperatureMin |-> 65,
    temperatureMax |-> 125, precipType |-> "rain", precipProbability |-> 90],
   [time |-> SecondsPerDay, summary |-> Samples.Heiter, icon |-> i_partly_cloudy_day,
    temperatureMin |-> 65, temperatureMax |-> 205, precipProbability |-> 0],
   [time |-> SecondsPerDay, summary |-> Samples.Schnee, icon |-> i_snow, temperatureMin |-> -15,
    precipType |-> "snow", precipProbability |-> 60],
   [time |-> 2 * SecondsPerDay, summary |-> Samples.Gewitter, icon |-> i_thunderstorm,
    temperatureMin |-> 95, temperatureMax |-> 215, precipType |-> "rain",
    precipProbability |-> 40],
   [time |-> 5 * SecondsPerDay, summary |-> Samples.Heiter, icon |-> i_rain, temperatureMin |-> 105,
    temperatureMax |-> 225, precipType |-> "rain", precipProbability |-> 75]}

\* a Monday record, the first two, the first three days of the week
FixedDaily ==
  LET mon == [time |-> 0, summary |-> Samples.Heiter, icon |-> i_clear_day, temperatureMin |-> 75,
              temperatureMax |-> 185, precipProbability |-> 10]
      tue == [time |-> SecondsPerDay, summary |-> Samples.Heiter, icon |-> i_rain,
              temperatureMin |-> 65, temperatureMax |-> 205, precipType |-> "rain",
              precipProbability |-> 50]
      wed == [time |-> 2 * SecondsPerDay, summary |-> Samples.Gewitter, icon |-> i_rain,
              temperatureMin |-> 95, temperatureMax |-> 215, precipType |-> "rain",
              precipProbability |-> 40]
  IN {<<mon>>, <<mon, tue>>, <<mon, tue, wed>>}

\* Monday 17:00, and Monday 17:00 and 18:00
FixedHourly ==
  LET h17 == [time |-> 17 * 3600, summary |-> Samples.LeichtBewoelkt, icon |-> i_partly_cloudy_day,
              temperature |-> 124, precipProbability |-> 10]
      h18 == [time |-> 18 * 3600, summary |-> Samples.Regen, icon |-> i_rain, temperature |-> 98,
              precipType |-> "rain", precipProbability |-> 80]
  IN {<<h17>>, <<h17, h18>>}

Payload(c, h, d) == [currently |-> c, hourly |-> [data |-> h], daily |-> [data |-> d]]

\* payloads whose current record varies
CurrentPayloads ==
  {Payload(c, <<>>, <<>>) : c \in CurrentRecords}

\* payloads whose hourly or daily series varies
RangedPayloads ==
  {Payload(CurrentBase, h, d) : h \in SortedSeqs(HourlyPool, MaxSeries), d \in FixedDaily}
  \cup {Payload(CurrentBase, h, d) : h \in FixedHourly, d \in SortedSeqs(DailyPool, MaxSeries)}

\* payloads that lack a part, or a record's time
BrokenPayloads ==
  LET h == CHOOSE x \in FixedHourly : Len(x) = 1
      d == CHOOSE x \in FixedDaily : Len(x) = 1
  IN {<<>>,
      [hourly |-> [data |-> h], daily |-> [data |-> d]],
      [currently |-> CurrentBase, daily |-> [data |-> d]],
      [currently |-> CurrentBase, hourly |-> [data |-> h]],
      [currently |-> CurrentBase, hourly |-> <<>>, daily |-> [data |-> d]],
      Payload(CurrentBase, <<[summary |-> Samples.Klar, icon |-> i_rain, temperature |-> 95]>>, d)}

known_intents == {"s710:getForecast", "s710:getTemperature", "s710:hasRain", "s710:hasSun", "s710:hasSnow"}

\* the intent names query_weather is called with; "s710:other" stands for a
\* name process_response does not recognize
IntentNames == known_intents \cup {"s710:other"}

\* time slot values that resolve to 'currently'
NowPhrases == {None, Some(s_jetzt)}

\* time slot values that resolve to one day, an evening, a week, a weekend
RangePhrases ==
  {Some(s_heute), Some(s_heute \o <<" ">> \o s_abend), Some(s_woche), Some(s_wochenende)}

HomeLocation == Some(<<"53.55", "9.99">>)
ApiKey == Some("key")

\* what the geolocator finds for the city slot
Geocoded == {None, Some(<<"60.17", "24.94">>)}

Request(intent, c, ts, w, key, home) ==
  [intent_name |-> intent, city |-> c, time |-> ts, payload |-> w, api_key |-> key,
   home_location |-> home]

\* the requests: (intent, city, time) of query_weather, the payload the
\* service answers with, and the configuration read by __init__
Requests ==
  {Request(i, None, ts, w, ApiKey, HomeLocation) :
     i \in IntentNames, ts \in NowPhrases, w \in CurrentPayloads}
  \cup {Request(i, None, ts, w, ApiKey, HomeLocation) :
          i \in IntentNames, ts \in RangePhrases, w \in RangedPayloads}
  \cup {Request(i, None, ts, w, ApiKey, HomeLocation) :
          i \in known_intents, ts \in {None, Some(s_heute)}, w \in BrokenPayloads}
  \cup {Request("s710:getTemperature", c, None, Payload(CurrentBase, <<>>, <<>>), key, home) :
          c \in {None, Some("Helsinki")}, key \in {None, ApiKey}, home \in {None, HomeLocation}}

\* --------------------------------------------- query_weather, state machine
InitQuery ==
  /\ pc = "start"
  /\ now = Now0
  /\ \E q \in Requests :
       /\ intent_name = q.intent_name
       /\ city = q.city
       /\ time_string = q.time
       /\ payload = q.payload
       /\ api_key = q.api_key
       /\ home_location = q.home_location
  /\ timerange = NotCalled
  /\ selection = None
  /\ response = Return(None)
  /\ published = <<>>
  /\ stage = "idle"
  /\ slots = [time |-> None, location |-> None, fault |-> "none"]

\* done(hermes, intent_message, response): hermes and intent_message are the
\* objects on_intent received, so the end of session is published
done(pub, message) == Append(pub, message)

\* query_weather returned before process_response was called
Ends(at) ==
  /\ stage' = at
  /\ UNCHANGED <<timerange, selection, response, published>>

\* one call of query_weather(hermes, intent_message, intent_name, city, time).
\* The collaborators decide: what the geolocator finds, whether requests.get
\* raises or which status it answers, whether the body is JSON, and whether
\* two equal strings are one object.
QueryWeather ==
  /\ pc = "start"
  /\ \E geocoded \in Geocoded, http \in {"raise", "200", "500"},
        json_ok \in BOOLEAN, same_object \in BOOLEAN :
       LET req_url == get_request_url(city, home_location, api_key, geocoded)
       IN IF req_url.raised \/ req_url.value = None THEN Ends("no-url")
          ELSE IF http = "raise" THEN Ends("http-failed")
          ELSE IF http # "200" THEN Ends("http-status")
          ELSE IF ~json_ok THEN Ends("json-failed")
          ELSE
            \* process_response: get_timerange, select_weather, then the handler
            /\ timerange' = get_timerange(time_string, now)
            /\ selection' = select_weather(payload, timerange'.scale, timerange'.from,
                                           timerange'.to)
            /\ response' = answer(intent_name, timerange', selection', same_object)
            /\ IF call_process_response(response').escaped
                 THEN stage' = "raised" /\ published' = published
               ELSE IF call_process_response(response').failed
                 THEN stage' = "process-failed" /\ published' = published
               ELSE /\ stage' = "replied"
                    /\ published' = done(published, call_process_response(response').message)
  /\ pc' = "done"
  /\ UNCHANGED <<time_string, now, payload, intent_name, city, api_key, home_location, slots>>

NextQuery == QueryWeather

SpecQuery == InitQuery /\ [][NextQuery]_vars

\* ------------------------------------------------- on_intent, state machine
\* (variant) query_weather called without the try/except of on_intent
call_query_weather_unguarded(raised) == [failed |-> raised, escaped |-> raised]

\* on_intent, lines 158-161: query_weather inside try/except; raised tells
\* whether query_weather let an exception out
call_query_weather(raised) == [failed |-> raised, escaped |-> FALSE]

\* an intent message arrives: its intent name, its time and location slots
\* (the time slot as spoken, with capital letters or without; fault names the
\* slot whose reading raises, if one does), the payload the service will
\* answer with and the configuration
InitIntent ==
  /\ pc = "start"
  /\ now = Now0
  /\ \E q \in Requests :
       /\ intent_name = q.intent_name
       /\ payload = q.payload
       /\ api_key = q.api_key
       /\ home_location = q.home_location
       /\ \E raw \in {<<c>> : c \in {"H", "W", "J", "h", "w", "j"}},
             fault \in {"none", "time", "location"} :
            slots = [time |-> IF q.time = None THEN None
                              ELSE IF lower(raw) = <<q.time[1][1]>>
                                THEN Some(raw \o Tail(q.time[1]))
                              ELSE q.time,
                     location |-> q.city,
                     fault |-> fault]
  /\ time_string = None
  /\ city = None
  /\ timerange = NotCalled
  /\ selection = None
  /\ response = Return(None)
  /\ published = <<>>
  /\ stage = "idle"

\* one call of on_intent(hermes, intent_message), with the call of
\* query_weather and of done in it. The collaborators decide: what the
\* geolocator finds, whether requests.get raises or which status it answers,
\* whether the body is JSON, whether two equal strings are one object, and
\* whether publish_end_session raises.
OnIntent ==
  /\ pc = "start"
  /\ \E geocoded \in Geocoded, http \in {"raise", "200", "500"}, json_ok \in BOOLEAN,
        same_object \in BOOLEAN, publish_ok \in BOOLEAN :
       \* lines 136-148: the slots, inside try/except-pass
       /\ time_string' = IF slots.fault = "time" \/ slots.time = None THEN None
                         ELSE Some(lower(slots.time[1]))
       /\ city' = IF slots.fault # "none" THEN None ELSE slots.location
       \* lines 152-153: unknown intents are ignored
       /\ IF intent_name \notin known_intents THEN Ends("ignored")
          \* lines 158-161: query_weather
          ELSE LET req_url == get_request_url(city', home_location, api_key, geocoded)
               IN IF req_url.raised \/ req_url.value = None THEN Ends("no-url")
                  ELSE IF http = "raise" THEN Ends("http-failed")
                  ELSE IF http # "200" THEN Ends("http-status")
                  ELSE IF ~json_ok THEN Ends("json-failed")
                  ELSE
                    /\ timerange' = get_timerange(time_string', now)
                    /\ selection' = select_weather(payload, timerange'.scale, timerange'.from,
                                                   timerange'.to)
                    /\ response' = answer(intent_name, timerange', selection', same_object)
                    /\ IF call_process_response(response').failed
                         THEN stage' = "process-failed" /\ published' = published
                       \* done: publish_end_session raises, and query_weather with it
                       ELSE IF call_query_weather(~publish_ok).escaped
                         THEN stage' = "escaped" /\ published' = published
                       ELSE IF call_query_weather(~publish_ok).failed
                         THEN stage' = "query-failed" /\ published' = published
                       ELSE /\ stage' = "replied"
                            /\ published' = done(published,
                                                 call_process_response(response').message)
  /\ pc' = "done"
  /\ UNCHANGED <<now, payload, intent_name, api_key, home_location, slots>>

NextIntent == OnIntent

SpecIntent == InitIntent /\ [][NextIntent]_vars

\* ============================================================== the claims
\* helpers of the claims: the calendar day of a timestamp, the phrase resolved
DayOf(ts) == ts \div SecondsPerDay
Phrase == time_string[1]
Resolved == pc = "done" /\ ~falsy_str(time_string)
ContainsWeekday(s) == \E i \in 1..7 : In(weekdays[i], s)
ContainsDayRange(s) == \E i \in 1..6 : In(day_range_symbols[i], s)

\* C1: a phrase that is None or empty, or that matches none of the resolver
\* rules (no weekday name, no 'woche', not 'heute', not 'morgen', not ending
\* in 'bermorgen', no day-range keyword), resolves at every time to
\* ('currently', None, None, 'Jetzt').
C1_NoRule(ts) ==
  \/ ts = None
  \/ ts = Some(<<>>)
  \/ LET s == ts[1]
     IN /\ ~ContainsWeekday(s)
        /\ ~In(s_woche, s)
        /\ s # s_heute
        /\ s # s_morgen
        /\ ~endswith(s, s_bermorgen)
        /\ ~ContainsDayRange(s)
Thm_C1_UnknownIsNow ==
  (pc = "done" /\ C1_NoRule(time_string)) =>
    timerange = [scale |-> "currently", from |-> None, to |-> None, prefix |-> s_Jetzt]
Wit_C1_UnknownIsNow ==
  /\ Resolved
  /\ C1_NoRule(time_string)
  /\ In(s_morgen, Phrase)
  /\ timerange.scale = "currently"

\* C2: a phrase containing a weekday name resolves to the next future
\* occurrence of that weekday (the first contained one in list order), today
\* excluded: the day offset is in 1..7, 7 exactly when it is today's weekday,
\* the scale is 'daily' and the interval is 00:00:00..23:59:59 of that day.
C2_Requested(s) == CHOOSE d \in 0..6 : In(weekdays[d + 1], s) /\ \A e \in 0..(d - 1) : ~In(weekdays[e + 1], s)
Thm_C2_NextWeekday ==
  (Resolved /\ ContainsWeekday(Phrase)) =>
    LET d == C2_Requested(Phrase)
        offset == DayOf(timerange.from[1]) - DayOf(now)
    IN /\ timerange.scale = "daily"
       /\ offset \in 1..7
       /\ (offset = 7) <=> (d = DayOf(now) % 7)
       /\ DayOf(timerange.from[1]) % 7 = d
       /\ timerange.from[1] = DayOf(timerange.from[1]) * SecondsPerDay
       /\ timerange.to[1] = timerange.from[1] + 23 * 3600 + 59 * 60 + 59
Wit_C2_NextWeekday ==
  /\ Resolved
  /\ ContainsWeekday(Phrase)
  /\ C2_Requested(Phrase) = DayOf(now) % 7
  /\ DayOf(timerange.from[1]) = DayOf(now) + 7

\* C3: the first matching rule wins, in the order weekday > weekend > week >
\* 'heute' > 'morgen' > ends with 'bermorgen' > day-range keyword > fallback;
\* a phrase with a weekday name and a day-range keyword yields the whole
\* 'daily' day of the weekday, never an 'hourly' range.
C3_Matches(i, s) ==
  CASE i = 1 -> ContainsWeekday(s)
    [] i = 2 -> In(s_wochenende, s) \/ (In(s_woche, s) /\ In(s_ende, s))
    [] i = 3 -> In(s_woche, s)
    [] i = 4 -> s = s_heute
    [] i = 5 -> s = s_morgen
    [] i = 6 -> endswith(s, s_bermorgen)
    [] i = 7 -> ContainsDayRange(s)
    [] OTHER -> TRUE
C3_BaseDay(s) == IF In(s_bermorgen, s) THEN 2 ELSE IF In(s_morgen, s) THEN 1 ELSE 0
C3_BaseLabel(s) == IF In(s_bermorgen, s) THEN s_Uebermorgen ELSE IF In(s_morgen, s) THEN s_Morgen ELSE s_Heute
C3_Result(i, s, t) ==
  CASE i = 1 -> get_weekday(C2_Requested(s), t)
    [] i = 2 -> get_weekend_range(t)
    [] i = 3 -> get_week_range(s, t)
    [] i = 4 -> get_day_range(t, s_Heute)
    [] i = 5 -> get_day_range(t + SecondsPerDay, s_Morgen)
    [] i = 6 -> get_day_range(t + 2 * SecondsPerDay, s_Uebermorgen)
    [] i = 7 -> get_subrange(s, t + C3_BaseDay(s) * SecondsPerDay, C3_BaseLabel(s))
    [] OTHER -> Currently
C3_First(s) == CHOOSE i \in 1..8 : C3_Matches(i, s) /\ \A j \in 1..(i - 1) : ~C3_Matches(j, s)
C3_Overlap(s) == \E i, j \in 1..7 : i < j /\ C3_Matches(i, s) /\ C3_Matches(j, s)
Thm_C3_FirstRuleWins ==
  (Resolved /\ C3_Overlap(Phrase)) =>
    /\ timerange = C3_Result(C3_First(Phrase), Phrase, now)
    /\ (ContainsWeekday(Phrase) /\ ContainsDayRange(Phrase)) =>
         /\ timerange.scale = "daily"
         /\ timerange.to[1] - timerange.from[1] = 23 * 3600 + 59 * 60 + 59
Wit_C3_FirstRuleWins ==
  /\ Resolved
  /\ ContainsWeekday(Phrase)
  /\ ContainsDayRange(Phrase)
  /\ timerange.scale = "daily"

\* C4 (as stated): when a phrase contains more than one day-range keyword, the
\* one that comes first in the list order frueh, vormittag, mittag,
\* nachmittag, abend, nacht determines the hour sub-range and the prefix,
\* also when one keyword contains another ('nachmittag' contains 'mittag').
C4_Hours == <<<<6, 10>>, <<9, 12>>, <<11, 14>>, <<14, 17>>, <<17, 22>>, <<22, -1>>>>
C4_Reached(s) == \A i \in 1..6 : ~C3_Matches(i, s)
C4_Several(s) == Cardinality({i \in 1..6 : In(day_range_symbols[i], s)}) > 1
C4_Expected(order, s, t) ==
  LET k == CHOOSE i \in 1..6 :
             /\ In(day_range_symbols[order[i]], s)
             /\ \A j \in 1..(i - 1) : ~In(day_range_symbols[order[j]], s)
      sym == order[k]
  IN get_hour_range(t + C3_BaseDay(s) * SecondsPerDay, C4_Hours[sym][1], C4_Hours[sym][2],
                    C3_BaseLabel(s) \o <<" ">> \o day_range_symbols[sym])
Cex_C4_ListOrder ==
  (Resolved /\ C4_Reached(Phrase) /\ C4_Several(Phrase)) =>
    timerange = C4_Expected(<<1, 2, 3, 4, 5, 6>>, Phrase, now)
\* C4 (amended): the keyword that decides is the first contained one in the
\* order frueh, vormittag, nachmittag, mittag, abend, nacht: 'nachmittag' is
\* tested before 'mittag', so a phrase with 'nachmittag' is never read as
\* 'mittag'.
Thm_C4_SubrangeOrder ==
  (Resolved /\ C4_Reached(Phrase) /\ C4_Several(Phrase)) =>
    timerange = C4_Expected(<<1, 2, 4, 3, 5, 6>>, Phrase, now)
Wit_C4_SubrangeOrder ==
  /\ Resolved
  /\ C4_Reached(Phrase)
  /\ Phrase = s_nachmittag
  /\ timerange.prefix = s_Heute \o s__nachmittag
  /\ timerange.from[1] = DayOf(now) * SecondsPerDay + 14 * 3600

\* C5: of the day-range keywords only 'nacht' crosses midnight: 22:00 of the
\* base day to 03:00 of the next calendar day; frueh, vormittag, mittag,
\* nachmittag and abend stay on the base day with from < to (06-10, 09-12,
\* 11-14, 14-17, 17-22); the base day is today, today+1 or today+2 for
\* none/'heute', 'morgen', 'uebermorgen'.
C5_Base(s) == IF In(s_uebermorgen, s) THEN 2 ELSE IF In(s_morgen, s) THEN 1 ELSE 0
Thm_C5_NightCrossesMidnight ==
  (Resolved /\ C4_Reached(Phrase) /\ ContainsDayRange(Phrase)) =>
    LET f == timerange.from[1]
        t == timerange.to[1]
        base == DayOf(now) + C5_Base(Phrase)
    IN /\ timerange.scale = "hourly"
       /\ DayOf(f) = base
       /\ \E k \in 1..6 :
            /\ In(day_range_symbols[k], Phrase)
            /\ f = base * SecondsPerDay + C4_Hours[k][1] * 3600
            /\ IF k = 6
                 THEN /\ t = (base + 1) * SecondsPerDay + 3 * 3600
                      /\ t > f
                      /\ DayOf(t) = DayOf(f) + 1
                 ELSE /\ t = base * SecondsPerDay + C4_Hours[k][2] * 3600
                      /\ f < t
                      /\ DayOf(t) = DayOf(f)
Wit_C5_NightCrossesMidnight ==
  /\ Resolved
  /\ Phrase = s_morgen \o <<" ">> \o s_nacht
  /\ timerange.scale = "hourly"
  /\ DayOf(timerange.from[1]) = DayOf(now) + 1
  /\ DayOf(timerange.to[1]) = DayOf(now) + 2

\* C6: a 'wochenende' phrase (or one with 'woche' and 'ende') resolves, on
\* every weekday of now, Saturday and Sunday included, to the Saturday of the
\* week that starts on the Monday of now: scale 'daily', from Saturday 00:00
\* to Sunday 00:00, exactly one day later, prefix 'Am Wochenende'.
C6_Weekend(s) == ~ContainsWeekday(s) /\ (In(s_wochenende, s) \/ (In(s_woche, s) /\ In(s_ende, s)))
Thm_C6_Weekend ==
  (Resolved /\ C6_Weekend(Phrase)) =>
    LET monday == DayOf(now) - (DayOf(now) % 7)
    IN /\ timerange.scale = "daily"
       /\ timerange.from = Some((monday + 5) * SecondsPerDay)
       /\ timerange.to = Some((monday + 6) * SecondsPerDay)
       /\ timerange.to[1] - timerange.from[1] = SecondsPerDay
       /\ timerange.prefix = s_AmWochenende
Wit_C6_Weekend ==
  /\ Resolved
  /\ C6_Weekend(Phrase)
  /\ DayOf(now) % 7 = 6
  /\ timerange.from = Some((DayOf(now) - 1) * SecondsPerDay)

\* C7: the tuple get_timerange returns has from = to = None exactly when its
\* scale is 'currently'; otherwise both bounds are present and from <= to.
Thm_C7_RangeInvariant ==
  pc = "done" =>
    /\ (timerange.from = None /\ timerange.to = None) <=> (timerange.scale = "currently")
    /\ timerange.scale # "currently" =>
         /\ timerange.from # None
         /\ timerange.to # None
         /\ timerange.from[1] <= timerange.to[1]
Wit_C7_RangeInvariant ==
  /\ Resolved
  /\ timerange.scale = "daily"
  /\ In(s_naechste, Phrase)
  /\ timerange.to[1] - timerange.from[1] = 6 * SecondsPerDay
\* C8: for scale 'hourly' or 'daily' select_payload returns exactly the
\* records of the hourly and of the daily series with from <= time <= to
\* (both bounds included), in source order, none dropped, duplicated or
\* reordered; for scale 'currently' it returns (payload.currently, None)
\* whatever the two series hold.
C8_Kept(data, f, t) == {i \in 1..Len(data) : f <= data[i]["time"] /\ data[i]["time"] <= t}
C8_Nth(S, k) == CHOOSE i \in S : Cardinality({j \in S : j < i}) = k - 1
C8_Exactly(res, data, f, t) ==
  /\ Len(res) = Cardinality(C8_Kept(data, f, t))
  /\ \A k \in 1..Len(res) : res[k] = data[C8_Nth(C8_Kept(data, f, t), k)]
C8_WellFormed(w) ==
  /\ {"currently", "hourly", "daily"} \subseteq DOMAIN w
  /\ \A s \in {"hourly", "daily"} :
       /\ "data" \in DOMAIN w[s]
       /\ \A i \in 1..Len(w[s]["data"]) : "time" \in DOMAIN w[s]["data"][i]
Thm_C8_SelectExactly ==
  (pc = "done" /\ C8_WellFormed(payload)) =>
    IF timerange.scale = "currently"
      THEN selection = <<payload["currently"], None>>
      ELSE /\ Len(selection) = 2
           /\ C8_Exactly(selection[1], payload["hourly"]["data"], timerange.from[1], timerange.to[1])
           /\ selection[2] # None
           /\ C8_Exactly(selection[2][1], payload["daily"]["data"], timerange.from[1], timerange.to[1])
Wit_C8_SelectExactly ==
  /\ pc = "done"
  /\ C8_WellFormed(payload)
  /\ timerange.scale = "hourly"
  /\ Len(payload["hourly"]["data"]) = 2
  /\ payload["hourly"]["data"][1]["time"] = timerange.to[1]
  /\ payload["hourly"]["data"][2]["time"] = timerange.from[1]
  /\ selection[1] = payload["hourly"]["data"]
  /\ Len(payload["daily"]["data"]) = 2
  /\ Len(selection[2][1]) = 1
\* helpers of the claims: query_weather reached process_response; the records
\* the handler was given
Processed == pc = "done" /\ stage \in {"replied", "process-failed", "raised"}
GivenRecords ==
  IF selection = None THEN {}
  ELSE IF timerange.scale = "currently" THEN {selection[1]}
  ELSE {selection[1][i] : i \in 1..Len(selection[1])}
         \cup {selection[2][1][i] : i \in 1..Len(selection[2][1])}

\* C9 (as stated): every core function (get_timerange, select_weather,
\* process_response and the handlers process_forecast, process_temperature,
\* process_has) returns None on a failure such as a missing series or a
\* missing record field, and never raises to its caller.
Cex_C9_NoFunctionRaises ==
  Processed => ~response.raised
\* C9 (amended): select_weather returns None when a series is missing and
\* process_response then returns None; a handler that meets a missing record
\* field raises instead of returning None, the exception passes through
\* process_response and is caught in query_weather, which publishes nothing
\* and lets no exception out.
C9_Fields ==
  {"summary", "icon", "temperature", "temperatureMin", "temperatureMax", "precipProbability"}
Thm_C9_RaiseIsCaught ==
  Processed =>
    /\ selection = None => response = [raised |-> FALSE, value |-> None]
    /\ response.raised =>
         /\ stage = "process-failed"
         /\ published = <<>>
         /\ \E r \in GivenRecords : ~(C9_Fields \subseteq DOMAIN r)
    /\ ~response.raised => stage = "replied" /\ published = <<response.value>>
Wit_C9_RaiseIsCaught ==
  /\ Processed
  /\ response.raised
  /\ stage = "process-failed"
  /\ intent_name = "s710:getForecast"
  /\ timerange.scale = "daily"
  /\ \E r \in GivenRecords : "temperatureMax" \notin DOMAIN r

\* C10: for a 'currently' has-rain or has-snow question whose current record
\* has precipType equal to the phenomenon, precipProbability < 0.3 gives the
\* negative answer, 0.3 <= precipProbability < 0.75 the affirmative answer
\* with 'vermutlich', precipProbability >= 0.75 the plain affirmative; a
\* record whose precipType is absent or differs gives the negative answer.
C10_What == IF intent_name = "s710:hasRain" THEN "rain" ELSE "snow"
C10_Negative ==
  IF C10_What = "rain" THEN t_IchDenkeNichtDassEsGerade \o t_regnet
  ELSE t_IchDenkeNichtDassEsGerade \o t_schneit
C10_Probably ==
  IF C10_What = "rain" THEN t_JaEs \o t_regnetGerade \o t_vermutlichDot
  ELSE t_JaEs \o t_schneitGerade \o t_vermutlichDot
C10_Plain ==
  IF C10_What = "rain" THEN t_JaEs \o t_regnetGeradeDot ELSE t_JaEs \o t_schneitGeradeDot
Cex_C10_Thresholds ==
  (/\ Processed
   /\ intent_name \in {"s710:hasRain", "s710:hasSnow"}
   /\ timerange.scale = "currently"
   /\ selection # None
   /\ DOMAIN selection[1] # {}) =>
    LET w == selection[1]
    IN IF "precipType" \notin DOMAIN w \/ w["precipType"] # C10_What
         THEN response = [raised |-> FALSE, value |-> Some(C10_Negative)]
       ELSE IF "precipProbability" \notin DOMAIN w THEN TRUE
       ELSE IF w["precipProbability"] < 30
         THEN response = [raised |-> FALSE, value |-> Some(C10_Negative)]
       ELSE IF w["precipProbability"] < 75
         THEN response = [raised |-> FALSE, value |-> Some(C10_Probably)]
       ELSE response = [raised |-> FALSE, value |-> Some(C10_Plain)]
\* helpers of the claims: process_response went past its check of the
\* selection and called the handler of the intent
HandlerInvoked ==
  /\ Processed
  /\ intent_name \in known_intents
  /\ selection # None
  /\ DOMAIN selection[1] # {}
  /\ timerange.scale = "daily" => (selection[2] # None /\ selection[2][1] # <<>>)
\* a ranged presence question whose handler ran on records that carry an icon
RangedHas ==
  /\ HandlerInvoked
  /\ timerange.scale \in {"hourly", "daily"}
  /\ intent_name \in {"s710:hasRain", "s710:hasSun", "s710:hasSnow"}
  /\ \A i \in 1..Len(selection[1]) : "icon" \in DOMAIN selection[1][i]
What ==
  IF intent_name = "s710:hasRain" THEN "rain"
  ELSE IF intent_name = "s710:hasSnow" THEN "snow" ELSE "sun"
\* the record matches the phenomenon asked for
Matches(w) ==
  IF What = "sun" THEN w["icon"] \in {i_clear_day, i_partly_cloudy_day}
  ELSE \/ w["icon"] \in {i_rain, i_hail, i_thunderstorm}
       \/ /\ "precipType" \in DOMAIN w
          /\ w["precipType"] = What
          /\ "precipProbability" \in DOMAIN w
          /\ w["precipProbability"] > 30

\* C11: for a ranged (hourly or daily) presence question, if no record of the
\* filtered window matches the phenomenon, and in particular for has-rain when
\* every record has precipProbability < 0.3, the answer is exactly
\* 'Nein, ich denke nicht.'.
C11_No == [raised |-> FALSE, value |-> Some(t_NeinIchDenkeNicht)]
C11_AllBelow ==
  \A i \in 1..Len(selection[1]) :
    /\ "precipProbability" \in DOMAIN selection[1][i]
    /\ selection[1][i]["precipProbability"] < 30
Thm_C11_NoMatchIsNo ==
  RangedHas =>
    /\ (\A i \in 1..Len(selection[1]) : ~Matches(selection[1][i])) => response = C11_No
    /\ (intent_name = "s710:hasRain" /\ C11_AllBelow) => response = C11_No
Wit_C11_NoMatchIsNo ==
  /\ RangedHas
  /\ intent_name = "s710:hasRain"
  /\ C11_AllBelow
  /\ \E i \in 1..Len(selection[1]) : selection[1][i]["icon"] = i_thunderstorm
  /\ response = C11_No
  /\ published = <<Some(t_NeinIchDenkeNicht)>>
\* C12: for a ranged has-rain or has-snow question, whenever at least one
\* record of the filtered window matches the asked phenomenon (icon match, or
\* precipType equal to the phenomenon with precipProbability > 0.3), the
\* answer is affirmative and names the phenomenon that a matching record
\* matched: rain, hail or thunderstorm for an icon match in that priority, the
\* asked phenomenon for a precipType match.
C12_RainMatch(w) ==
  \/ w["icon"] = i_rain
  \/ /\ What = "rain"
     /\ "precipType" \in DOMAIN w
     /\ w["precipType"] = "rain"
     /\ "precipProbability" \in DOMAIN w
     /\ w["precipProbability"] > 30
C12_Some(P(_)) == \E i \in 1..Len(selection[1]) : P(selection[1][i])
C12_HasIcon(icon) == \E i \in 1..Len(selection[1]) : selection[1][i]["icon"] = icon
Cex_C12_NamesTheMatch ==
  (/\ RangedHas
   /\ intent_name \in {"s710:hasRain", "s710:hasSnow"}
   /\ C12_Some(Matches)
   /\ ~response.raised) =>
    /\ response.value # None
    /\ response # C11_No
    /\ endswith(response.value[1], t_regnen) => C12_Some(C12_RainMatch)
    /\ endswith(response.value[1], t_hageln) => C12_HasIcon(i_hail)
    /\ endswith(response.value[1], t_GewitterGeben) => C12_HasIcon(i_thunderstorm)
\* a has-snow question over a window with a snow record and no rain record is
\* answered with 'regnen.'
C12_SnowNamedRain ==
  /\ RangedHas
  /\ intent_name = "s710:hasSnow"
  /\ ~response.raised
  /\ response.value # None
  /\ endswith(response.value[1], t_regnen)
  /\ ~C12_Some(C12_RainMatch)
\* C13 (as stated): process_response invokes no handler and returns None
\* exactly when selection failed, or the hourly records filtered to the window
\* are empty, or the scale is 'daily' and the daily records filtered to the
\* window are empty.
C13_NoAnswer == response = [raised |-> FALSE, value |-> None]
C13_Ranged == timerange.scale \in {"hourly", "daily"}
C13_HoursEmpty == C13_Ranged /\ selection # None /\ selection[1] = <<>>
C13_DaysEmpty ==
  /\ timerange.scale = "daily"
  /\ selection # None
  /\ selection[2] # None
  /\ selection[2][1] = <<>>
Cex_C13_NoneExactlyWhen ==
  (Processed /\ intent_name \in known_intents) =>
    (C13_NoAnswer <=> (selection = None \/ C13_HoursEmpty \/ C13_DaysEmpty))
\* C13 (amended): process_response invokes no handler and returns None
\* exactly when selection failed, or the scale is 'currently' and the current
\* record is empty, or the scale is ranged and the hourly records filtered to
\* the window are empty, or the scale is 'daily' and the daily records
\* filtered to the window are empty; a 'daily' query with daily records but no
\* hourly record yields no answer, and an 'hourly' query with hourly records
\* is handled even when no daily record falls in its window.
C13_CurrentEmpty ==
  /\ timerange.scale = "currently"
  /\ selection # None
  /\ DOMAIN selection[1] = {}
Thm_C13_NoneExactlyWhen ==
  (Processed /\ intent_name \in known_intents) =>
    /\ C13_NoAnswer <=>
         (selection = None \/ C13_CurrentEmpty \/ C13_HoursEmpty \/ C13_DaysEmpty)
    /\ (timerange.scale = "daily" /\ C13_HoursEmpty /\ ~C13_DaysEmpty) => C13_NoAnswer
    /\ (/\ timerange.scale = "hourly"
        /\ selection # None
        /\ selection[1] # <<>>
        /\ selection[2] = Some(<<>>)
        /\ \A i \in 1..Len(selection[1]) : C9_Fields \subseteq DOMAIN selection[1][i])
         => (~response.raised /\ response.value # None)
Wit_C13_NoneExactlyWhen ==
  /\ Processed
  /\ intent_name = "s710:getTemperature"
  /\ timerange.scale = "hourly"
  /\ selection # None
  /\ selection[1] # <<>>
  /\ selection[2] = Some(<<>>)
  /\ ~response.raised
  /\ response.value # None
  /\ published = <<response.value>>
\* a 'daily' query whose window holds daily records but no hourly record
C13_DailyWithoutHours ==
  /\ Processed
  /\ intent_name \in known_intents
  /\ timerange.scale = "daily"
  /\ C13_HoursEmpty
  /\ ~C13_DaysEmpty
  /\ C13_NoAnswer
\* C14: for every incoming intent, on_intent publishes an end of session at
\* most once; a publication carries a sentence only if URL construction, the
\* HTTP fetch (status 200), JSON parsing, time resolution, selection and the
\* handler all succeeded; on a failure at any stage, and for an intent name
\* outside the five known intents, no sentence is delivered (nothing is
\* published, or the end of session is published with an empty response), and
\* no exception escapes on_intent.
C14_Failed ==
  {"ignored", "no-url", "http-failed", "http-status", "json-failed", "process-failed",
   "query-failed"}
C14_Sentence == published # <<>> /\ published[1] # None
Thm_C14_OneReplyOrNone ==
  pc = "done" =>
    /\ Len(published) <= 1
    /\ stage \in C14_Failed \cup {"replied"}
    /\ stage \in C14_Failed => published = <<>>
    /\ intent_name \notin known_intents => (stage = "ignored" /\ published = <<>>)
    /\ stage = "replied" => published = <<response.value>>
    /\ (selection = None \/ response.raised) => ~C14_Sentence
    /\ C14_Sentence =>
         /\ stage = "replied"
         /\ intent_name \in known_intents
         /\ timerange # NotCalled
         /\ selection # None
         /\ response = [raised |-> FALSE, value |-> published[1]]
Wit_C14_OneReplyOrNone ==
  /\ pc = "done"
  /\ stage = "replied"
  /\ C14_Sentence
  /\ slots.time # time_string
  /\ timerange.scale = "daily"
\* the ways on_intent ends without a sentence
C14_EmptyReply == pc = "done" /\ stage = "replied" /\ published = <<None>>
C14_PublishRaised == pc = "done" /\ stage = "query-failed" /\ ~response.raised /\ published = <<>>
C14_HandlerRaised == pc = "done" /\ stage = "process-failed" /\ response.raised /\ published = <<>>
====
